---- MODULE Spec2Model ----
(***************************************************************************)
(* A model of clib2/Point.c (the Point functions called through ctypes)    *)
(* and of the string example of clib1/ctypes.md (add_one_to_string called  *)
(* with a Python str and with a ctypes string buffer).                     *)
(***************************************************************************)
EXTENDS Integers, Sequences, FiniteSets, TLC

VARIABLES counter, heap, refs, pts, status, calls, moves, last,
          text, buf, tmp, ncalls, strlast

pointVars == <<counter, heap, refs, pts, status, calls, moves, last>>
strVars == <<text, buf, tmp, ncalls, strlast>>
vars == <<counter, heap, refs, pts, status, calls, moves, last,
          text, buf, tmp, ncalls, strlast>>

(***************************************************************************)
(* Bounds of the model.                                                    *)
(***************************************************************************)
\* heap cells the allocator can hand out
MaxAddr == 2
\* calls to getPoint and getPointPointer together
MaxCalls == 2
\* calls to movePoint and movePointRef together
MaxMoves == 2
\* characters of the Python string
MaxLen == 2
\* calls of add_one_to_string on one string buffer
MaxAddOne == 2

(***************************************************************************)
(* C types.                                                                *)
(***************************************************************************)
\* the fields of Point and the counter are C ints
INT_MAX == 2147483647
INT_MIN == -INT_MAX - 1
\* what malloc returns when it has no memory
NULL == 0

Addr == 1..MaxAddr

Point(px, py) == [x |-> px, y |-> py]

\* v++ on an int that is not INT_MAX; at INT_MAX the increment overflows,
\* which is undefined: the builds either wrap or trap
Wrap(v) == IF v = INT_MAX THEN INT_MIN ELSE v + 1
Overflows(p) == p.x = INT_MAX \/ p.y = INT_MAX

\* a slip that increments x alone
Moved_XOnly(p) == Point(Wrap(p.x), p.y)

\* point.x++; point.y++;
Moved(p) == Point(Wrap(p.x), Wrap(p.y))

(***************************************************************************)
(* The host's side: the Points it holds by value and the references it     *)
(* got from getPointPointer.                                               *)
(***************************************************************************)
Slots == {"p"}

HostPoints == {Point(1, 2), Point(INT_MAX, -1), Point(7, INT_MAX)}

NoPoint == Point(0, 0)
NoTarget == [kind |-> "none", slot |-> "", idx |-> 0]
StackTarget(s) == [kind |-> "stack", slot |-> s, idx |-> 0]
RefTarget(r) == [kind |-> "ref", slot |-> "", idx |-> r]

\* what a reference points at: live storage, storage already given back to
\* the allocator, or nothing
Access(a) == IF a = NULL THEN "null"
             ELSE IF heap[a].live THEN "ok" ELSE "freed"

\* an access that is undefined behaviour either kills the process or is
\* executed on whatever the reference points at
UBOutcomes == {"crashed", "executed"}

Event(op, tgt, pre, post, ctr, outcome, viol, rel) ==
  [op |-> op, tgt |-> tgt, pre |-> pre, post |-> post, ctr |-> ctr,
   outcome |-> outcome, viol |-> viol, released |-> rel]

StrEvent(op, src, pre) == [op |-> op, src |-> src, pre |-> pre, raised |-> "none"]

\* r designates an allocation that was passed to freePointPointer
Released(r) == refs[r].addr # NULL /\ refs[r].released

Init ==
  /\ counter = 0
  /\ heap = [a \in Addr |-> [live |-> FALSE, p |-> NoPoint]]
  /\ refs = <<>>
  /\ pts \in [Slots -> HostPoints]
  /\ status = "running"
  /\ calls = [getPoint |-> 0, getPointPointer |-> 0]
  /\ moves = 0
  /\ last = Event("init", NoTarget, NoPoint, NoPoint, 0, "executed", "none", FALSE)
  /\ text = <<>>
  /\ buf = <<>>
  /\ tmp = <<>>
  /\ ncalls = 0
  /\ strlast = StrEvent("init", <<>>, <<>>)

(***************************************************************************)
(* Point.c                                                                 *)
(***************************************************************************)
\* how a call ends: it returns, or the process dies in it
Finish(ev) ==
  /\ last' = ev
  /\ status' = IF ev.outcome = "crashed" THEN "crashed" ELSE status

\* the outcomes of a statement: one when it is defined, those of undefined
\* behaviour otherwise
Outcomes(defined) == IF defined THEN {"executed"} ELSE UBOutcomes

Targets == {StackTarget(s) : s \in Slots} \cup {RefTarget(r) : r \in 1..Len(refs)}

\* the Point a reference parameter designates (the stale contents when the
\* storage was freed; nothing that the model holds when it is NULL)
Deref(t) ==
  IF t.kind = "stack" THEN pts[t.slot]
  ELSE IF refs[t.idx].addr = NULL THEN NoPoint
  ELSE heap[refs[t.idx].addr].p

AccessOf(t) == IF t.kind = "stack" THEN "ok" ELSE Access(refs[t.idx].addr)
ReleasedOf(t) == t.kind = "ref" /\ Released(t.idx)

\* void showPoint(Point point): prints the copy it was given
showPoint(s) ==
  /\ status = "running"
  /\ Finish(Event("showPoint", StackTarget(s), pts[s], pts[s], counter,
                  "executed", "none", FALSE))
  /\ UNCHANGED <<counter, heap, refs, pts, calls, moves, strVars>>

\* void showPointRef(Point *point): prints point->x and point->y
showPointRef(t) ==
  /\ status = "running"
  /\ \E o \in Outcomes(AccessOf(t) = "ok") :
       Finish(Event("showPointRef", t, Deref(t), Deref(t), counter, o,
                    IF AccessOf(t) = "ok" THEN "none" ELSE AccessOf(t),
                    ReleasedOf(t)))
  /\ UNCHANGED <<counter, heap, refs, pts, calls, moves, strVars>>

\* movePoint taking its parameter by reference: the increments reach the
\* caller's storage
movePoint_ByReference(s) ==
  /\ status = "running"
  /\ moves < MaxMoves
  /\ \E o \in Outcomes(~Overflows(pts[s])) :
       /\ Finish(Event("movePoint", StackTarget(s), pts[s], pts[s], counter, o,
                       IF Overflows(pts[s]) THEN "overflow" ELSE "none", FALSE))
       /\ pts' = IF o = "executed" THEN [pts EXCEPT ![s] = Moved(pts[s])] ELSE pts
  /\ moves' = moves + 1
  /\ UNCHANGED <<counter, heap, refs, calls, strVars>>

\* void movePoint(Point point): point.x++; point.y++; on its own copy
movePoint(s) ==
  /\ status = "running"
  /\ moves < MaxMoves
  /\ \E o \in Outcomes(~Overflows(pts[s])) :
       Finish(Event("movePoint", StackTarget(s), pts[s], pts[s], counter, o,
                    IF Overflows(pts[s]) THEN "overflow" ELSE "none", FALSE))
  /\ moves' = moves + 1
  /\ UNCHANGED <<counter, heap, refs, pts, calls, strVars>>

\* the storage after point->x++; point->y++; through the reference t
StoreMoved(t) ==
  IF t.kind = "stack"
  THEN /\ pts' = [pts EXCEPT ![t.slot] = Moved(pts[t.slot])]
       /\ UNCHANGED heap
  ELSE IF refs[t.idx].addr = NULL
  THEN UNCHANGED <<pts, heap>>
  ELSE /\ heap' = [heap EXCEPT ![refs[t.idx].addr].p = Moved(@)]
       /\ UNCHANGED pts

\* void movePointRef(Point *point)
movePointRef(t) ==
  /\ status = "running"
  /\ moves < MaxMoves
  /\ \E o \in Outcomes(AccessOf(t) = "ok" /\ ~Overflows(Deref(t))) :
       /\ IF o = "executed" THEN StoreMoved(t) ELSE UNCHANGED <<pts, heap>>
       /\ Finish(Event("movePointRef", t, Deref(t),
                       IF o = "executed" /\ ~(t.kind = "ref" /\ refs[t.idx].addr = NULL)
                       THEN Moved(Deref(t)) ELSE Deref(t),
                       counter, o,
                       IF AccessOf(t) # "ok" THEN AccessOf(t)
                       ELSE IF Overflows(Deref(t)) THEN "overflow" ELSE "none",
                       ReleasedOf(t)))
  /\ moves' = moves + 1
  /\ UNCHANGED <<counter, refs, calls, strVars>>

\* Point point = { counter++, counter++ }: the two initializers are
\* indeterminately sequenced, either may take the first tick
InitializerOrders == {"xy", "yx"}

InitializerList(order) ==
  IF order = "xy" THEN Point(counter, Wrap(counter))
  ELSE Point(Wrap(counter), counter)

\* Point getPoint(void), its result stored in the host's slot s
getPoint(s) ==
  /\ status = "running"
  /\ calls.getPoint + calls.getPointPointer < MaxCalls
  /\ \E order \in InitializerOrders :
       /\ pts' = [pts EXCEPT ![s] = InitializerList(order)]
       /\ Finish(Event("getPoint", StackTarget(s), pts[s], InitializerList(order),
                       counter, "executed", "none", FALSE))
  /\ counter' = Wrap(Wrap(counter))
  /\ calls' = [calls EXCEPT !.getPoint = @ + 1]
  /\ UNCHANGED <<heap, refs, moves, strVars>>

\* malloc(sizeof(Point)): a block that is not in use, or NULL
malloc == {NULL} \cup {a \in Addr : ~heap[a].live}

\* Point* getPointPointer(void): the result of malloc is not tested
getPointPointer ==
  /\ status = "running"
  /\ calls.getPoint + calls.getPointPointer < MaxCalls
  /\ \E a \in malloc : \E o \in Outcomes(a # NULL) :
       /\ Finish(Event("getPointPointer", RefTarget(Len(refs) + 1), NoPoint,
                       Point(counter, Wrap(counter)), counter, o,
                       IF a = NULL THEN "null" ELSE "none", FALSE))
       /\ IF o = "executed"
          THEN /\ heap' = IF a = NULL THEN heap
                          ELSE [heap EXCEPT ![a] =
                                  [live |-> TRUE, p |-> Point(counter, Wrap(counter))]]
               /\ counter' = Wrap(Wrap(counter))
               /\ refs' = Append(refs, [addr |-> a, released |-> FALSE])
               /\ calls' = [calls EXCEPT !.getPointPointer = @ + 1]
          ELSE UNCHANGED <<heap, counter, refs, calls>>
  /\ UNCHANGED <<pts, moves, strVars>>

\* free(point): the block goes back to the allocator; free(NULL) does nothing
free(a) == IF a = NULL THEN heap ELSE [heap EXCEPT ![a].live = FALSE]

\* void freePointPointer(Point *point): prints point->x, point->y, then frees
freePointPointer(r) ==
  /\ status = "running"
  /\ \E o \in Outcomes(Access(refs[r].addr) = "ok") :
       /\ Finish(Event("freePointPointer", RefTarget(r), Deref(RefTarget(r)),
                       Deref(RefTarget(r)), counter, o,
                       IF Access(refs[r].addr) = "ok" THEN "none"
                       ELSE Access(refs[r].addr),
                       Released(r)))
       /\ IF o = "executed"
          THEN /\ heap' = free(refs[r].addr)
               /\ refs' = [refs EXCEPT ![r].released = TRUE]
          ELSE UNCHANGED <<heap, refs>>
  /\ UNCHANGED <<counter, pts, calls, moves, strVars>>

\* the host's run ends; Point.c does nothing then
Exit ==
  /\ status = "running"
  /\ status' = "exited"
  /\ last' = Event("exit", NoTarget, NoPoint, NoPoint, counter, "executed",
                   "none", FALSE)
  /\ UNCHANGED <<counter, heap, refs, pts, calls, moves, strVars>>

Next ==
  \/ \E s \in Slots : showPoint(s)
  \/ \E t \in Targets : showPointRef(t)
  \/ \E s \in Slots : movePoint(s)
  \/ \E t \in Targets : movePointRef(t)
  \/ \E s \in Slots : getPoint(s)
  \/ getPointPointer
  \/ \E r \in 1..Len(refs) : freePointPointer(r)
  \/ Exit

Spec == Init /\ [][Next]_vars

(***************************************************************************)
(* ctypes.md: add_one_to_string and its two callers.                       *)
(***************************************************************************)
\* the characters the texts are made of: NUL, 's', DEL, U+00FF, U+20AC
CodePoints == {0, 115, 127, 255, 8364}

\* original_string = "staring string"
StaringString == <<115, 116, 97, 114, 105, 110, 103, 32,
                   115, 116, 114, 105, 110, 103>>

\* b'tubsjoh!tusjoh'
TubsjohTusjoh == <<116, 117, 98, 115, 106, 111, 104, 33,
                   116, 117, 115, 106, 111, 104>>

Texts == UNION {[1..n -> CodePoints] : n \in 0..MaxLen} \cup {StaringString}

\* str.encode: the UTF-8 bytes of one character
EncodeChar(c) ==
  IF c < 128 THEN <<c>>
  ELSE IF c < 2048 THEN <<192 + (c \div 64), 128 + (c % 64)>>
  ELSE <<224 + (c \div 4096), 128 + ((c \div 64) % 64), 128 + (c % 64)>>

RECURSIVE encode(_)
encode(t) == IF t = <<>> THEN <<>> ELSE EncodeChar(Head(t)) \o encode(Tail(t))

\* ctypes.create_string_buffer(bytes): the bytes and a terminating NUL
string_buffer(bytes) == bytes \o <<0>>

\* mutable_string.value: the bytes before the first NUL
RECURSIVE value(_)
value(b) == IF b = <<>> \/ Head(b) = 0 THEN <<>> ELSE <<Head(b)>> \o value(Tail(b))

\* what ctypes hands to C for a str argument: a wchar_t copy of it (four
\* bytes a character, low byte first, a zero wchar_t last), not the str
WideChar(c) == <<c % 256, (c \div 256) % 256, (c \div 65536) % 256, 0>>

RECURSIVE WideString(_)
WideString(t) ==
  IF t = <<>> THEN WideChar(0) ELSE WideChar(Head(t)) \o WideString(Tail(t))

strlen(input) == Len(value(input))

\* for (; ii < strlen(input); ii++) input[ii]++;  with strlen taken anew
\* at every turn
RECURSIVE AddOneLoop(_, _)
AddOneLoop(input, ii) ==
  IF ii < strlen(input)
  THEN AddOneLoop([input EXCEPT ![ii + 1] = (@ + 1) % 256], ii + 1)
  ELSE input

\* a loop that starts at the second byte
add_one_to_string_FromOne(input) == AddOneLoop(input, 1)

\* void add_one_to_string(char *input)
add_one_to_string(input) == AddOneLoop(input, 0)

InitStr ==
  /\ counter = 0
  /\ heap = [a \in Addr |-> [live |-> FALSE, p |-> NoPoint]]
  /\ refs = <<>>
  /\ pts = [s \in Slots |-> Point(1, 2)]
  /\ status = "running"
  /\ calls = [getPoint |-> 0, getPointPointer |-> 0]
  /\ moves = 0
  /\ last = Event("init", NoTarget, NoPoint, NoPoint, 0, "executed", "none", FALSE)
  /\ text \in Texts
  /\ buf = <<>>
  /\ tmp = <<>>
  /\ ncalls = 0
  /\ strlast = StrEvent("init", text, <<>>)

\* mutable_string = ctypes.create_string_buffer(str.encode(original_string))
create_string_buffer ==
  /\ buf' = string_buffer(encode(text))
  /\ ncalls' = 0
  /\ strlast' = StrEvent("create_string_buffer", text, buf)
  /\ UNCHANGED <<text, tmp, pointVars>>

\* libc.add_one_to_string(mutable_string)
CallWithBuffer ==
  /\ buf # <<>>
  /\ ncalls < MaxAddOne
  /\ buf' = add_one_to_string(buf)
  /\ ncalls' = ncalls + 1
  /\ strlast' = StrEvent("call_buffer", text, buf)
  /\ UNCHANGED <<text, tmp, pointVars>>

\* libc.add_one_to_string(original_string): the call runs, on memory that
\* is not the string
CallWithStr ==
  /\ tmp' = add_one_to_string(WideString(text))
  /\ strlast' = StrEvent("call_str", text, WideString(text))
  /\ UNCHANGED <<text, buf, ncalls, pointVars>>

NextStr ==
  \/ create_string_buffer
  \/ CallWithBuffer
  \/ CallWithStr

SpecStr == InitStr /\ [][NextStr]_vars

(***************************************************************************)
(* Claims about Point.c, checked under Spec.                               *)
(***************************************************************************)
ByRefOps == {"showPointRef", "movePointRef", "freePointPointer"}

\* q is p with both fields one larger, as integers
PlusOne(p, q) ==
  /\ p.x < INT_MAX /\ q.x = p.x + 1
  /\ p.y < INT_MAX /\ q.y = p.y + 1

\* C1: of the calls freePointPointer(r) on one reference r exactly one
\* succeeds: a call on a reference that was released before does not
\* return as if nothing were wrong.
C1_SecondFreeRejected ==
  (last.op = "freePointPointer" /\ last.released) => last.outcome # "executed"

\* C2: a released reference never designates live storage again, and no
\* showPointRef, movePointRef or freePointPointer through it is executed.
C2_ReleasedStaysReleased ==
  /\ \A r \in 1..Len(refs) : Released(r) => Access(refs[r].addr) # "ok"
  /\ (last.op \in ByRefOps /\ last.released) => last.outcome # "executed"

C4_KthGetPoint ==
  (last.op = "getPoint" /\ calls.getPointPointer = 0)
    => last.post = Point(2 * (calls.getPoint - 1), 2 * (calls.getPoint - 1) + 1)

\* C5: getPoint and getPointPointer share the counter: each call returns
\* x = the counter before it and y = x + 1, the counter is twice the number
\* of calls made, and no other operation changes it.
C5_SharedCounter ==
  /\ counter = 2 * (calls.getPoint + calls.getPointPointer)
  /\ (last.op \in {"getPoint", "getPointPointer"} /\ last.outcome = "executed")
       => /\ last.post = Point(last.ctr, last.ctr + 1)
          /\ counter = last.ctr + 2
  /\ (last.op \notin {"getPoint", "getPointPointer", "init"}) => counter = last.ctr

\* C6: after movePoint(p) the caller's p is what it was before the call,
\* and neither the counter nor a heap Point was written.
C6_MovePointKeepsCaller ==
  [][(last'.op = "movePoint" /\ moves' = moves + 1)
       => /\ pts' = pts
          /\ pts'[last'.tgt.slot] = last'.pre
          /\ heap' = heap
          /\ counter' = counter
          /\ refs' = refs]_vars

C6_Witness ==
  /\ last.op = "movePoint"
  /\ last.outcome = "executed"
  /\ last.pre = Point(1, 2)
  /\ pts[last.tgt.slot] = Point(1, 2)

\* C7 as stated: after movePointRef(&p) on live storage p is (x+1, y+1),
\* for every Point p.
C7_MoveRefAddsOne ==
  (last.op = "movePointRef" /\ last.outcome = "executed"
     /\ last.viol \in {"none", "overflow"})
    => PlusOne(last.pre, Deref(last.tgt))

\* what a call of movePointRef on live storage holding p leaves: only the
\* target changes
MoveRefFrame(t) ==
  /\ counter' = counter
  /\ refs' = refs
  /\ IF t.kind = "stack"
     THEN /\ heap' = heap
          /\ \A s \in Slots \ {t.slot} : pts'[s] = pts[s]
          /\ PlusOne(pts[t.slot], pts'[t.slot])
     ELSE /\ pts' = pts
          /\ \A a \in Addr \ {refs[t.idx].addr} : heap'[a] = heap[a]
          /\ heap'[refs[t.idx].addr].live = heap[refs[t.idx].addr].live
          /\ PlusOne(heap[refs[t.idx].addr].p, heap'[refs[t.idx].addr].p)

\* C7, amended: after movePointRef(&p) on live storage p with x < INT_MAX
\* and y < INT_MAX, p is (x+1, y+1) and nothing else changed.
C7_MoveRefAddsOneBelowMax ==
  [][(last'.op = "movePointRef" /\ moves' = moves + 1 /\ last'.viol = "none")
       => /\ last'.outcome = "executed"
          /\ MoveRefFrame(last'.tgt)]_vars

C7_Witness ==
  /\ last.op = "movePointRef"
  /\ last.outcome = "executed"
  /\ last.viol = "none"
  /\ last.tgt.kind = "ref"
  /\ moves = 2
  /\ PlusOne(last.pre, Deref(last.tgt))
  /\ Deref(last.tgt) = Point(2, 3)

\* C10: getPointPointer returns a reference to live storage that no other
\* allocated reference designates and that holds the two counter values it
\* consumed, and it never writes through NULL.
C10_FreshLiveReference ==
  (last.op = "getPointPointer")
    => /\ last.viol = "none"
       /\ last.outcome = "executed"
       /\ Access(refs[last.tgt.idx].addr) = "ok"
       /\ Deref(last.tgt) = Point(last.ctr, last.ctr + 1)
       /\ \A r \in 1..Len(refs) :
            (r # last.tgt.idx /\ ~Released(r))
              => refs[r].addr # refs[last.tgt.idx].addr

(***************************************************************************)
(* Claims about the string example, checked under SpecStr.                 *)
(***************************************************************************)
\* C8: after add_one_to_string on a buffer freshly made from a text, every
\* byte before the terminator is the original byte plus one, the buffer and
\* its string are as long as before, the text is what it was, and
\* "staring string" has become "tubsjoh!tusjoh".
C8_BufferIncremented ==
  (strlast.op = "call_buffer" /\ strlast.pre = string_buffer(encode(strlast.src)))
    => /\ Len(buf) = Len(strlast.pre)
       /\ strlen(buf) = strlen(strlast.pre)
       /\ \A i \in 1..Len(buf) :
            buf[i] = IF i <= strlen(strlast.pre) THEN strlast.pre[i] + 1
                     ELSE strlast.pre[i]
       /\ text = strlast.src
       /\ (text = StaringString => value(buf) = TubsjohTusjoh)

C8_Witness ==
  /\ strlast.op = "call_buffer"
  /\ text = StaringString
  /\ strlast.pre = string_buffer(StaringString)
  /\ value(buf) = TubsjohTusjoh

\* C9: add_one_to_string called with the Python str itself is refused with
\* a ClassificationError and the memory handed to C is left as it was.
C9_ImmutableRejected ==
  (strlast.op = "call_str")
    => /\ strlast.raised = "ClassificationError"
       /\ tmp = strlast.pre
====
